---- MODULE Spec2Model ----
(***************************************************************************)
(* Model of src/src/validate_traits.py: the entry point that loads the    *)
(* in-situ trait tables of 2019 and 2022, reconciles the 2019 schema,     *)
(* merges LAI and CCC into the composite trait cab, joins with the        *)
(* inversion results and calls validate_data, and validate_data itself.   *)
(*                                                                         *)
(* Data frames are records [cols, index, rows]; a column name is a        *)
(* sequence of tokens (<<"lai", "_all">> is 'lai_all'), a cell is a       *)
(* tuple: <<>> is NaN, <<s>> a string, <<n, d>> the float n/d, and a      *)
(* sequence of one-character strings is a string the code splits.         *)
(***************************************************************************)
EXTENDS Integers, Sequences, FiniteSets, TLC

VARIABLES
    pc,               \* position of the script / of validate_data
    failedAt,         \* the position at which an exception was raised
    disk,             \* the input files (read-only)
    yi,               \* index into years
    lai_list, ccc_list, lai_all, ccc_all, bbch_insitu,
    si, ti,           \* indexes into sub_dirs and traits
    inv_res_df, trait_settings, insitu_trait_df, joined,
    fs,               \* output files: path -> content
    writes,           \* the paths written, in order
    processed,        \* the (sub_dir, trait) pairs handed to validate_data
    args,             \* validate_data's arguments
    df, error_stats, ax, idx, it, err_stats_list,
    n_macro_stages, df_stages,
    calls             \* the (true, pred) series handed to plot_prediction

loadVars == <<yi, lai_list, ccc_list, lai_all, ccc_all, bbch_insitu>>
loopVars == <<si, ti, inv_res_df, trait_settings, insitu_trait_df, joined, processed>>
outVars  == <<fs, writes>>
valVars  == <<args, df, error_stats, ax, idx, it, err_stats_list,
              n_macro_stages, df_stages, calls>>
vars == <<pc, failedAt, disk, loadVars, loopVars, outVars, valVars>>

---------------------------------------------------------------------------
(* Bounds of the model *)
MaxRecs == 2      \* records per in-situ file
MaxRows == 2      \* rows of the joined table handed to validate_data

---------------------------------------------------------------------------
(* Cells *)
NaN == <<>>
Str(s) == <<s>>
Num(n) == <<n, 1>>
Inf == <<1, 0>>

Min(a, b) == IF a < b THEN a ELSE b

RECURSIVE GCD(_, _)
GCD(a, b) == IF b = 0 THEN a ELSE GCD(b, a % b)

Norm(n, d) == LET g == GCD(n, d) IN <<n \div g, d \div g>>

\* float division of non-negative values: x/0 is inf, 0/0 is NaN
FDiv(a, b) ==
    IF a = NaN \/ b = NaN THEN NaN
    ELSE IF b[1] = 0 THEN (IF a[1] = 0 \/ b[2] = 0 THEN NaN ELSE Inf)
    ELSE IF a[2] = 0 THEN Inf
    ELSE Norm(a[1] * b[2], a[2] * b[1])

FMul(a, b) ==
    IF a = NaN \/ b = NaN THEN NaN
    ELSE IF a[2] = 0 \/ b[2] = 0
         THEN (IF a[1] = 0 \/ b[1] = 0 THEN NaN ELSE Inf)
    ELSE Norm(a[1] * b[1], a[2] * b[2])

---------------------------------------------------------------------------
(* Strings the code takes apart: sequences of one-character strings *)
RECURSIVE Split(_, _)
Split(s, sep) ==
    IF s = <<>> THEN << <<>> >>
    ELSE LET rest == Split(Tail(s), sep)
         IN  IF Head(s) = sep THEN << <<>> >> \o rest
             ELSE << <<Head(s)>> \o Head(rest) >> \o Tail(rest)

RECURSIVE Join(_, _)
Join(sep, parts) ==
    IF parts = <<>> THEN <<>>
    ELSE IF Len(parts) = 1 THEN Head(parts)
    ELSE Head(parts) \o <<sep>> \o Join(sep, Tail(parts))

\* python's seq[0:n]
Slice0(s, n) == SubSeq(s, 1, Min(n, Len(s)))

\* replace every token old of a column name by new (str.replace on the token)
ReplaceTok(name, old, new) ==
    [i \in 1..Len(name) |-> IF name[i] = old THEN new ELSE name[i]]

StartsWith(name, tok) == Len(name) >= 1 /\ name[1] = tok

---------------------------------------------------------------------------
(* Data frames *)
C(s) == <<s>>

RangeIndex(n) == [i \in 1..n |-> i - 1]

Frame(cols, rows) == [cols |-> cols, index |-> RangeIndex(Len(rows)), rows |-> rows]

\* the positions of the rows of a frame
Rows(d) == 1..Len(d.rows)

\* df[c] = vals: adds or overwrites a column, vals[i] the cell of row i
AssignCol(d, c, vals) ==
    [d EXCEPT !.cols = @ \cup {c},
              !.rows = [i \in 1..Len(d.rows) |->
                          [k \in d.cols \cup {c} |->
                              IF k = c THEN vals[i] ELSE d.rows[i][k]]]]

\* df.drop(columns=cs)
DropCols(d, cs) ==
    [d EXCEPT !.cols = @ \ cs,
              !.rows = [i \in 1..Len(d.rows) |->
                          [k \in d.cols \ cs |-> d.rows[i][k]]]]

\* pd.concat([a, b]): the union of the columns, NaN where a frame lacks one,
\* the index labels of the parts kept
Pad(row, have, cols) == [k \in cols |-> IF k \in have THEN row[k] ELSE NaN]

Concat(a, b) ==
    LET cols == a.cols \cup b.cols
    IN  [cols  |-> cols,
         index |-> a.index \o b.index,
         rows  |-> [i \in 1..Len(a.rows) |-> Pad(a.rows[i], a.cols, cols)]
                   \o [i \in 1..Len(b.rows) |-> Pad(b.rows[i], b.cols, cols)]]

RECURSIVE ConcatList(_)
ConcatList(l) ==
    IF Len(l) = 1 THEN Head(l) ELSE Concat(Head(l), ConcatList(Tail(l)))

\* pd.merge(l, r, on=keys) (inner): every left row, in order, with every right
\* row whose key cells are equal; a non-key column both frames have is kept
\* twice, with the suffixes _x and _y
MergeCols(l, r, on) ==
    LET both == (l.cols \cap r.cols) \ on
    IN  on \cup {IF c \in both THEN Append(c, "_x") ELSE c : c \in l.cols \ on}
           \cup {IF c \in both THEN Append(c, "_y") ELSE c : c \in r.cols \ on}

MergeRow(l, r, on, lr, rr) ==
    LET both == (l.cols \cap r.cols) \ on
        LName(c) == IF c \in both THEN Append(c, "_x") ELSE c
        RName(c) == IF c \in both THEN Append(c, "_y") ELSE c
    IN  [k \in MergeCols(l, r, on) |->
            IF k \in on THEN lr[k]
            ELSE IF \E c \in l.cols \ on : LName(c) = k
                 THEN lr[CHOOSE c \in l.cols \ on : LName(c) = k]
                 ELSE rr[CHOOSE c \in r.cols \ on : RName(c) = k]]

KeysEqual(on, lr, rr) == \A k \in on : lr[k] = rr[k]

RECURSIVE MergeRows(_, _, _, _)
MergeRows(l, r, on, i) ==
    IF i > Len(l.rows) THEN <<>>
    ELSE LET hits == SelectSeq(r.rows, LAMBDA rr : KeysEqual(on, l.rows[i], rr))
         IN  [j \in 1..Len(hits) |-> MergeRow(l, r, on, l.rows[i], hits[j])]
             \o MergeRows(l, r, on, i + 1)

Merge(l, r, on) == Frame(MergeCols(l, r, on), MergeRows(l, r, on, 1))

---------------------------------------------------------------------------
(* The constants at the top of the entry point *)
traits == <<"cab">>
years == <<2019, 2022>>
sub_dirs == <<"agdds_and_s2", "agdds_only">>

TraitNames == {"lai", "ccc", "cab"}
SettingKeys == {"trait_name", "trait_unit", "trait_limits", "orig_trait_data"}

\* the merge keys of the cab branch
MergeKeys == {C("point_id"), C("gdd_cumsum"), C("parcel"), C("location")}

\* a slip: the exception is swallowed and the loop goes on with the next pair
RaiseCaught == pc' = "v_return" /\ failedAt' = pc

\* an uncaught exception: the interpreter unwinds and the run is over
Raise == pc' = "failed" /\ failedAt' = pc

---------------------------------------------------------------------------
(* Year-specific schema reconciliation of the 2019 tables *)
\* a slip: the point id is the whole plot name
PointIdBug(plot) == plot

\* '_'.join(str(x).split('_')[0:2])
PointId(plot) == Join("_", Slice0(Split(plot, "_"), 2))

Patch2019(d) ==
    LET d1 == AssignCol(d,  C("gdd_cumsum"), [i \in Rows(d) |-> Num(999)])
        d2 == AssignCol(d1, C("point_id"),   [i \in Rows(d) |-> PointId(d1.rows[i][C("Plot")])])
        d3 == AssignCol(d2, C("parcel"),     [i \in Rows(d) |-> d2.rows[i][C("field")]])
        d4 == AssignCol(d3, C("genotype"),   [i \in Rows(d) |-> Str("Arnold")])
    IN  AssignCol(d4, C("location"), [i \in Rows(d) |-> Str("SwissFutureFarm")])

Patch2019Ccc(d) ==
    AssignCol(Patch2019(d), C("ccc"), [i \in Rows(d) |-> d.rows[i][C("CCC [g/m2]")]])

\* the attributes and columns the 2019 patch reads
Patch2019Reads(what) ==
    IF what = "ccc" THEN {C("Plot"), C("field"), C("CCC [g/m2]")}
    ELSE {C("Plot"), C("field")}

ReadLai ==
    /\ pc = "read_lai"
    /\ LET year == years[yi]
           lai  == disk.lai[year]
       IN  IF \/ <<"lai", year>> \in disk.missing
              \/ (year = 2019 /\ ~(Patch2019Reads("lai") \subseteq lai.cols))
           THEN Raise /\ UNCHANGED lai_list
           ELSE /\ lai_list' = Append(lai_list,
                                 IF year = 2019 THEN Patch2019(lai) ELSE lai)
                /\ pc' = "read_ccc"
                /\ UNCHANGED failedAt
    /\ UNCHANGED <<disk, yi, ccc_list, lai_all, ccc_all, bbch_insitu,
                   loopVars, outVars, valVars>>

ReadCcc ==
    /\ pc = "read_ccc"
    /\ LET year == years[yi]
           ccc  == disk.ccc[year]
       IN  IF \/ <<"ccc", year>> \in disk.missing
              \/ (year = 2019 /\ ~(Patch2019Reads("ccc") \subseteq ccc.cols))
           THEN Raise /\ UNCHANGED <<ccc_list, yi>>
           ELSE /\ ccc_list' = Append(ccc_list,
                                 IF year = 2019 THEN Patch2019Ccc(ccc) ELSE ccc)
                /\ yi' = yi + 1
                /\ pc' = IF yi < Len(years) THEN "read_lai" ELSE "concat"
                /\ UNCHANGED failedAt
    /\ UNCHANGED <<disk, lai_list, lai_all, ccc_all, bbch_insitu,
                   loopVars, outVars, valVars>>

\* combine traits from different years
ConcatYears ==
    /\ pc = "concat"
    /\ lai_all' = ConcatList(lai_list)
    /\ ccc_all' = ConcatList(ccc_list)
    /\ pc' = "read_bbch"
    /\ UNCHANGED <<failedAt, disk, yi, lai_list, ccc_list, bbch_insitu,
                   loopVars, outVars, valVars>>

ReadBbch ==
    /\ pc = "read_bbch"
    /\ IF <<"bbch", 2022>> \in disk.missing
       THEN Raise /\ UNCHANGED bbch_insitu
       ELSE /\ bbch_insitu' = disk.bbch
            /\ pc' = "read_inv"
            /\ UNCHANGED failedAt
    /\ UNCHANGED <<disk, yi, lai_list, ccc_list, lai_all, ccc_all,
                   loopVars, outVars, valVars>>

---------------------------------------------------------------------------
(* The loop over the retrieval configurations and the traits *)
\* a slip: the output directory does not depend on the configuration
OutDirBug(sub_dir, trait) == <<sub_dirs[1], "validation_" \o trait>>

OutDir(sub_dir, trait) == <<sub_dir, "validation_" \o trait>>

ReadInvRes ==
    /\ pc = "read_inv"
    /\ IF <<"inv", sub_dirs[si]>> \in disk.missing
       THEN Raise /\ UNCHANGED <<inv_res_df, trait_settings, ti>>
       ELSE /\ inv_res_df' = disk.inv[sub_dirs[si]]
            /\ trait_settings' = [t \in TraitNames |-> SettingKeys]
            /\ ti' = 1
            /\ pc' = "merge"
            /\ UNCHANGED failedAt
    /\ UNCHANGED <<disk, loadVars, si, insitu_trait_df, joined, processed,
                   outVars, valVars>>

\* trait_settings[trait]['orig_trait_data']
OrigTraitData(trait) ==
    IF trait = "lai" THEN <<lai_all>>
    ELSE IF trait = "ccc" THEN <<ccc_all>>
    ELSE <<lai_all, ccc_all>>

MergeInsitu ==
    /\ pc = "merge"
    /\ LET trait == traits[ti]
           orig  == OrigTraitData(trait)
       IN  IF "orig_trait_data" \notin trait_settings[trait]
           THEN Raise /\ UNCHANGED insitu_trait_df
           ELSE IF trait = "cab"
           THEN IF ~(MergeKeys \subseteq orig[1].cols /\ MergeKeys \subseteq orig[2].cols)
                THEN Raise /\ UNCHANGED insitu_trait_df
                ELSE /\ insitu_trait_df' = Merge(orig[1], orig[2], MergeKeys)
                     /\ pc' = "fix_cols"
                     /\ UNCHANGED failedAt
           ELSE /\ insitu_trait_df' = orig[1]
                /\ pc' = "del_orig"
                /\ UNCHANGED failedAt
    /\ UNCHANGED <<disk, loadVars, si, ti, inv_res_df, trait_settings, joined,
                   processed, outVars, valVars>>

\* replace date_x with date and drop date_y; replace lai_x with lai and drop lai_y
FixCols(d) ==
    LET d1 == AssignCol(d,  C("date"), [i \in Rows(d) |-> d.rows[i][<<"date", "_x">>]])
        d2 == DropCols(d1, {<<"date", "_x">>, <<"date", "_y">>})
        d3 == AssignCol(d2, C("lai"),  [i \in Rows(d) |-> d2.rows[i][<<"lai", "_x">>]])
    IN  DropCols(d3, {<<"lai", "_x">>, <<"lai", "_y">>})

FixMergedCols ==
    /\ pc = "fix_cols"
    /\ IF ~({<<"date", "_x">>, <<"date", "_y">>, <<"lai", "_x">>, <<"lai", "_y">>}
              \subseteq insitu_trait_df.cols)
       THEN Raise /\ UNCHANGED insitu_trait_df
       ELSE /\ insitu_trait_df' = FixCols(insitu_trait_df)
            /\ pc' = "ref_cab"
            /\ UNCHANGED failedAt
    /\ UNCHANGED <<disk, loadVars, si, ti, inv_res_df, trait_settings, joined,
                   processed, outVars, valVars>>

\* calculate cab from lai and ccc [ug/cm2], reference
RefCabValue(ccc, lai) == FMul(FDiv(ccc, lai), Num(100))

RefCab ==
    /\ pc = "ref_cab"
    /\ IF C("ccc") \notin insitu_trait_df.cols
       THEN Raise /\ UNCHANGED insitu_trait_df
       ELSE /\ insitu_trait_df' = AssignCol(insitu_trait_df, C("cab"),
                                    [i \in Rows(insitu_trait_df) |->
                                        RefCabValue(insitu_trait_df.rows[i][C("ccc")],
                                                    insitu_trait_df.rows[i][C("lai")])])
            /\ pc' = "pred_cab"
            /\ UNCHANGED failedAt
    /\ UNCHANGED <<disk, loadVars, si, ti, inv_res_df, trait_settings, joined,
                   processed, outVars, valVars>>

\* the columns of inv_res_df starting with 'lai', and the columns made of them
LaiCols(d) == {c \in d.cols : StartsWith(c, "lai")}
CccCol(lai_col) == ReplaceTok(lai_col, "lai", "ccc")
CabCol(lai_col) == ReplaceTok(lai_col, "lai", "cab")

\* a slip: the ratio the wrong way round
PredCabValueBug(ccc, lai) == FMul(FDiv(lai, ccc), Num(100))

\* calculate cab from lai and ccc [ug/cm2], predictions
PredCabValue(ccc, lai) == FMul(FDiv(ccc, lai), Num(100))

AddCabCols(d) ==
    LET lai_cols == LaiCols(d)
        cab_cols == {CabCol(c) : c \in lai_cols}
        cols     == d.cols \cup cab_cols
    IN  [d EXCEPT !.cols = cols,
                  !.rows = [i \in 1..Len(d.rows) |->
                      [k \in cols |->
                          IF k \in cab_cols
                          THEN LET lc == CHOOSE c \in lai_cols : CabCol(c) = k
                               IN  PredCabValue(d.rows[i][CccCol(lc)], d.rows[i][lc])
                          ELSE d.rows[i][k]]]]

PredCab ==
    /\ pc = "pred_cab"
    /\ IF \E c \in LaiCols(inv_res_df) : CccCol(c) \notin inv_res_df.cols
       THEN Raise /\ UNCHANGED inv_res_df
       ELSE /\ inv_res_df' = AddCabCols(inv_res_df)
            /\ pc' = "del_orig"
            /\ UNCHANGED failedAt
    /\ UNCHANGED <<disk, loadVars, si, ti, trait_settings, insitu_trait_df,
                   joined, processed, outVars, valVars>>
DelOrigTraitData ==
    /\ pc = "del_orig"
    /\ LET trait == traits[ti]
       IN  IF "orig_trait_data" \notin trait_settings[trait]
           THEN Raise /\ UNCHANGED trait_settings
           ELSE /\ trait_settings' =
                       [trait_settings EXCEPT ![trait] = @ \ {"orig_trait_data"}]
                /\ pc' = "join"
                /\ UNCHANGED failedAt
    /\ UNCHANGED <<disk, loadVars, si, ti, inv_res_df, insitu_trait_df, joined,
                   processed, outVars, valVars>>

---------------------------------------------------------------------------
(* Output files *)
\* trait.replace(" ", "-") followed by the rest of the file name
FileName(trait, rest) == ReplaceTok(<<trait>>, " ", "-") \o <<rest>>
Path(out_dir, name) == <<out_dir, name>>
JoinedPath(out_dir, trait) ==
    Path(out_dir, <<"inv_res_joined_with_insitu_" \o trait \o ".csv">>)

\* the file system after writing the files ws = <<path, content>>, ... in order
RECURSIVE Written(_, _)
Written(f, ws) ==
    IF ws = <<>> THEN f
    ELSE Written((Head(ws)[1] :> Head(ws)[2]) @@ f, Tail(ws))

Write(ws) ==
    /\ fs' = Written(fs, ws)
    /\ writes' = writes \o [i \in 1..Len(ws) |-> ws[i][1]]

---------------------------------------------------------------------------
(* The joined table *)
JoinedCols(trait) ==
    {<<trait>>, <<trait, "_all">>, <<trait, " (Phenology)">>,
     C("BBCH Rating"), C("Macro-Stage")}

\* the macro-stage labels, in their sorting order
MacroStages == <<"1-tillering", "2-elongation", "3-flowering">>
\* utils.assign_macro_stages: the fixed table from a BBCH rating to its macro-stage
assign_macro_stages(bbch_val) ==
    IF bbch_val = NaN THEN NaN
    ELSE IF bbch_val[1] < 30 * bbch_val[2] THEN Str(MacroStages[1])
    ELSE IF bbch_val[1] < 60 * bbch_val[2] THEN Str(MacroStages[2])
    ELSE Str(MacroStages[3])

---------------------------------------------------------------------------
(* pandas and matplotlib operations validate_data uses *)
EmptyFrame == Frame({}, <<>>)

\* df[col]: the cells of a column with their index labels
Series(d, col) == [i \in 1..Len(d.rows) |-> <<d.index[i], d.rows[i][col]>>]

\* df[mask]: the rows whose mask is true, with their index labels, in order
Filter(d, mask) ==
    LET keep == SelectSeq([i \in 1..Len(d.rows) |-> i], LAMBDA i : mask[i])
    IN  [cols  |-> d.cols,
         index |-> [j \in 1..Len(keep) |-> d.index[keep[j]]],
         rows  |-> [j \in 1..Len(keep) |-> d.rows[keep[j]]]]

\* a slip: nothing is dropped
DropNaBug(d, col) == d

\* df.dropna(subset=[col])
DropNa(d, col) == Filter(d, [i \in Rows(d) |-> d.rows[i][col] # NaN])

\* df[col].nunique(): NaN is not counted
NUnique(d, col) == Cardinality({d.rows[i][col] : i \in 1..Len(d.rows)} \ {NaN})

\* df.groupby(by=col): one (key, frame) per value, sorted by key, NaN keys dropped
GroupKeys(d, col) ==
    SelectSeq(MacroStages, LAMBDA s : \E i \in 1..Len(d.rows) : d.rows[i][col] = Str(s))

GroupBy(d, col) ==
    LET keys == GroupKeys(d, col)
    IN  [j \in 1..Len(keys) |->
            <<keys[j], Filter(d, [i \in Rows(d) |-> d.rows[i][col] = Str(keys[j])])>>]

\* plt.subplots(ncols=n): with one column a single Axes, not an array of them
BlankPanel == [title |-> <<>>, drawn |-> <<>>]
Subplots(ncols) == [single |-> ncols = 1, panels |-> [i \in 1..ncols |-> BlankPanel]]

\* whether ax[i] can be evaluated
Indexable(a, i) == ~a.single /\ i < Len(a.panels)

Draw(a, i, pairs, title) ==
    [a EXCEPT !.panels[i + 1] = [title |-> title, drawn |-> pairs]]

\* utils.plot_prediction: the statistics of the pairs whose true and predicted
\* values are both present (n stands for the statistics computed of them)
plot_prediction(true, pred) ==
    LET both == SelectSeq([i \in 1..Len(true) |-> <<true[i][1], true[i][2], pred[i][2]>>],
                          LAMBDA t : t[2] # NaN /\ t[3] # NaN)
    IN  [n |-> Len(both), pairs |-> both]

\* utils.bbch_confusion_matrix: observed against predicted macro-stage
ConfusionPath(out_dir) == Path(out_dir, <<"bbch_confusion_matrix">>)

bbch_confusion_matrix(d) ==
    LET both == Filter(d, [i \in Rows(d) |->
                              /\ d.rows[i][C("BBCH Rating (Macro-Stages)")] # NaN
                              /\ d.rows[i][C("Macro-Stage")] # NaN])
    IN  [i \in 1..Len(both.rows) |->
            <<both.rows[i][C("BBCH Rating (Macro-Stages)")], both.rows[i][C("Macro-Stage")]>>]

---------------------------------------------------------------------------
(* validate_data *)
Trait == <<args.trait>>
PredAll == <<args.trait, "_all">>
PredPheno == <<args.trait, " (Phenology)">>

\* the column the per-macro-stage stratification groups by
StageCol == C("Macro-Stage")

ValidateStart ==
    /\ pc = "v_start"
    /\ IF Trait \notin args.df.cols
       THEN Raise /\ UNCHANGED <<df, ax>>
       ELSE /\ df' = DropNa(args.df, Trait)
            /\ ax' = Subplots(2)
            /\ pc' = "v_all"
            /\ UNCHANGED failedAt
    /\ UNCHANGED <<disk, loadVars, loopVars, outVars, args, error_stats, idx, it,
                   err_stats_list, n_macro_stages, df_stages, calls>>

\* what the first full-sample call hands to plot_prediction
FullSampleAll == [true |-> Series(df, Trait), pred |-> Series(df, PredAll)]

PlotAll ==
    /\ pc = "v_all"
    /\ IF PredAll \notin df.cols
       THEN Raise /\ UNCHANGED <<error_stats, ax, calls>>
       ELSE LET call  == FullSampleAll
                stats == plot_prediction(call.true, call.pred)
            IN  /\ calls' = Append(calls, call)
                /\ error_stats' = <<[n |-> stats.n, pairs |-> stats.pairs,
                                     phenology_considered |-> FALSE]>>
                /\ ax' = Draw(ax, 0, stats.pairs,
                              <<"Inversion WITHOUT phenological constraints">>)
                /\ pc' = "v_pheno"
                /\ UNCHANGED failedAt
    /\ UNCHANGED <<disk, loadVars, loopVars, outVars, args, df, idx, it,
                   err_stats_list, n_macro_stages, df_stages>>

\* a slip: the second full-sample call reads the unconstrained column again
FullSamplePhenoBug == [true |-> Series(df, Trait), pred |-> Series(df, PredAll)]

\* what the second full-sample call hands to plot_prediction
FullSamplePheno == [true |-> Series(df, Trait), pred |-> Series(df, PredPheno)]

PlotPheno ==
    /\ pc = "v_pheno"
    /\ IF PredPheno \notin df.cols
       THEN Raise /\ UNCHANGED <<error_stats, ax, calls, outVars>>
       ELSE LET call  == FullSamplePheno
                stats == plot_prediction(call.true, call.pred)
                row   == [n |-> stats.n, pairs |-> stats.pairs,
                          phenology_considered |-> TRUE]
                fig   == Draw(ax, 1, stats.pairs,
                              <<"Inversion WITH phenological constraints">>)
            IN  /\ calls' = Append(calls, call)
                /\ error_stats' = Append(error_stats, row)
                /\ ax' = fig
                /\ Write(<< <<Path(args.out_dir, FileName(args.trait, "_scatterplot.png")),
                              fig.panels>>,
                            <<Path(args.out_dir, FileName(args.trait, "_error_stats.csv")),
                              Append(error_stats, row)>> >>)
                /\ pc' = "v_stages"
                /\ UNCHANGED failedAt
    /\ UNCHANGED <<disk, loadVars, loopVars, args, df, idx, it,
                   err_stats_list, n_macro_stages, df_stages>>

\* assign macro-stages to in-situ BBCH ratings, group, open the panels
GroupStages ==
    /\ pc = "v_stages"
    /\ LET d == AssignCol(df, C("BBCH Rating (Macro-Stages)"),
                          [i \in Rows(df) |-> assign_macro_stages(df.rows[i][C("BBCH Rating")])])
       IN  IF C("BBCH Rating") \notin df.cols
           THEN Raise /\ UNCHANGED <<df, n_macro_stages, df_stages, ax, idx, it,
                                     err_stats_list>>
           ELSE IF StageCol \notin d.cols \/ NUnique(d, StageCol) <= 0
           THEN Raise /\ UNCHANGED <<df, n_macro_stages, df_stages, ax, idx, it,
                                     err_stats_list>>
           ELSE /\ df' = d
                /\ n_macro_stages' = NUnique(d, StageCol)
                /\ df_stages' = GroupBy(d, StageCol)
                /\ ax' = Subplots(NUnique(d, StageCol))
                /\ idx' = 0
                /\ it' = 1
                /\ err_stats_list' = <<>>
                /\ pc' = "v_loop_pheno"
                /\ UNCHANGED failedAt
    /\ UNCHANGED <<disk, loadVars, loopVars, outVars, args, error_stats, calls>>

\* what one iteration over df_stages hands to plot_prediction
StageCall(pred_col) ==
    [true |-> Series(df_stages[it][2], Trait), pred |-> Series(df_stages[it][2], pred_col)]

\* a slip: every iteration draws on the first panel
PanelIndexBug == IF idx > 0 THEN idx - 1 ELSE idx

\* the panel an iteration draws on
PanelIndex == idx

\* one iteration of "for macro_stage, df_stage in df_stages"
StageStep(pred_col) ==
    LET macro_stage == df_stages[it][1]
        df_stage    == df_stages[it][2]
    IN  IF pred_col \notin df_stage.cols \/ ~Indexable(ax, PanelIndex)
        THEN Raise /\ UNCHANGED <<ax, idx, it, err_stats_list, calls>>
        ELSE LET call  == StageCall(pred_col)
                 stats == plot_prediction(call.true, call.pred)
             IN  /\ calls' = Append(calls, call)
                 /\ ax' = Draw(ax, PanelIndex, stats.pairs, <<"Macro-Stage: ", macro_stage>>)
                 /\ err_stats_list' = Append(err_stats_list,
                        [n |-> stats.n, pairs |-> stats.pairs, phase |-> macro_stage])
                 /\ idx' = idx + 1
                 /\ it' = it + 1
                 /\ UNCHANGED <<pc, failedAt>>

LoopPheno ==
    /\ pc = "v_loop_pheno"
    /\ it <= Len(df_stages)
    /\ StageStep(PredPheno)
    /\ UNCHANGED <<disk, loadVars, loopVars, outVars, args, df, error_stats,
                   n_macro_stages, df_stages>>

EndLoopPheno ==
    /\ pc = "v_loop_pheno"
    /\ it > Len(df_stages)
    /\ Write(<< <<Path(args.out_dir, FileName(args.trait, "_scatterplot_pheno_phases.png")),
                  ax.panels>>,
                <<Path(args.out_dir, FileName(args.trait, "_errors_pheno_phases.csv")),
                  err_stats_list>> >>)
    /\ IF n_macro_stages <= 0
       THEN Raise /\ UNCHANGED <<ax, idx, it, err_stats_list>>
       ELSE /\ ax' = Subplots(n_macro_stages)
            /\ idx' = 0
            /\ it' = 1
            /\ err_stats_list' = <<>>
            /\ pc' = "v_loop_all"
            /\ UNCHANGED failedAt
    /\ UNCHANGED <<disk, loadVars, loopVars, args, df, error_stats,
                   n_macro_stages, df_stages, calls>>

LoopAll ==
    /\ pc = "v_loop_all"
    /\ it <= Len(df_stages)
    /\ StageStep(PredAll)
    /\ UNCHANGED <<disk, loadVars, loopVars, outVars, args, df, error_stats,
                   n_macro_stages, df_stages>>

EndLoopAll ==
    /\ pc = "v_loop_all"
    /\ it > Len(df_stages)
    /\ Write(<< <<Path(args.out_dir, FileName(args.trait, "_scatterplot_pheno_phases_all.png")),
                  ax.panels>>,
                <<Path(args.out_dir, FileName(args.trait, "_errors_pheno_phases_all.csv")),
                  err_stats_list>>,
                <<ConfusionPath(args.out_dir), bbch_confusion_matrix(df)>> >>)
    /\ pc' = "v_return"
    /\ UNCHANGED <<failedAt, disk, loadVars, loopVars, valVars>>
---------------------------------------------------------------------------
(* The rest of the loop body: join, write the joined table, validate *)
JRow(trait, ref, all, pheno, bbch, stage) ==
    <<trait>> :> ref @@ <<trait, "_all">> :> all @@ <<trait, " (Phenology)">> :> pheno
    @@ C("BBCH Rating") :> bbch @@ C("Macro-Stage") :> stage

Restrict(row, cols) == [k \in cols |-> row[k]]

\* utils.join_with_insitu: the tables it may return for the entry point, none
\* longer than either of the tables joined
JoinedFixtures ==
    LET r1 == JRow("cab", Num(40), Num(30), Num(50), Num(25), Str(MacroStages[1]))
        r2 == JRow("cab", Num(60), Num(30), NaN,     Num(35), Str(MacroStages[2]))
        r3 == JRow("cab", NaN,     Num(30), Num(50), Num(35), Str(MacroStages[2]))
    IN  { Frame(JoinedCols("cab"), <<>>),
          Frame(JoinedCols("cab"), <<r1>>),
          Frame(JoinedCols("cab"), <<r3>>),
          Frame(JoinedCols("cab"), <<r1, r2>>),
          Frame(JoinedCols("cab") \ {C("Macro-Stage")},
                <<Restrict(r1, JoinedCols("cab") \ {C("Macro-Stage")})>>) }

join_with_insitu ==
    {j \in JoinedFixtures : /\ Len(j.rows) <= Len(insitu_trait_df.rows)
                            /\ Len(j.rows) <= Len(inv_res_df.rows)}

\* join S2 and in-situ data, write the joined table
JoinWithInsitu ==
    /\ pc = "join"
    /\ \/ Raise /\ UNCHANGED <<joined, outVars>>
       \/ \E j \in join_with_insitu :
             /\ joined' = j
             /\ Write(<< <<JoinedPath(OutDir(sub_dirs[si], traits[ti]), traits[ti]), j>> >>)
             /\ pc' = "call"
             /\ UNCHANGED failedAt
    /\ UNCHANGED <<disk, loadVars, si, ti, inv_res_df, trait_settings,
                   insitu_trait_df, processed, valVars>>

\* validate_data(_df=joined, out_dir=out_dir, trait=trait, **trait_settings[trait])
CallValidate ==
    /\ pc = "call"
    /\ IF trait_settings[traits[ti]] # {"trait_name", "trait_unit", "trait_limits"}
       THEN Raise /\ UNCHANGED <<processed, valVars>>
       ELSE /\ args' = [df |-> joined, out_dir |-> OutDir(sub_dirs[si], traits[ti]),
                        trait |-> traits[ti]]
            /\ processed' = Append(processed, <<sub_dirs[si], traits[ti]>>)
            /\ calls' = <<>>
            /\ pc' = "v_start"
            /\ UNCHANGED <<failedAt, df, error_stats, ax, idx, it, err_stats_list,
                           n_macro_stages, df_stages>>
    /\ UNCHANGED <<disk, loadVars, si, ti, inv_res_df, trait_settings,
                   insitu_trait_df, joined, outVars>>

\* validate_data returned: the next trait, the next configuration, or the end
Return ==
    /\ pc = "v_return"
    /\ IF ti < Len(traits)
       THEN ti' = ti + 1 /\ pc' = "merge" /\ UNCHANGED si
       ELSE IF si < Len(sub_dirs)
       THEN si' = si + 1 /\ pc' = "read_inv" /\ UNCHANGED ti
       ELSE pc' = "done" /\ UNCHANGED <<si, ti>>
    /\ UNCHANGED <<failedAt, disk, loadVars, inv_res_df, trait_settings,
                   insitu_trait_df, joined, processed, outVars, valVars>>

---------------------------------------------------------------------------
(* Input files *)
RECURSIVE PickRows(_, _, _)
PickRows(U, S, i) ==
    IF i > Len(U) THEN <<>>
    ELSE (IF i \in S THEN <<U[i]>> ELSE <<>>) \o PickRows(U, S, i + 1)

\* the tables of at most max records of U, in U's order
SubTables(cols, U, max) ==
    {Frame(cols, PickRows(U, S, 1)) :
        S \in {T \in SUBSET (1..Len(U)) : Cardinality(T) <= max}}

PlotA == <<"F", "_", "1", "_", "a">>
PlotG == <<"G">>
Point1 == <<"F", "_", "1">>

Rec2019(plot, field, date, lai) ==
    C("Plot") :> plot @@ C("field") :> Str(field) @@ C("date") :> Str(date)
    @@ C("lai") :> Num(lai)

Rec2022(point, gdd, parcel, date, lai) ==
    C("point_id") :> point @@ C("gdd_cumsum") :> Num(gdd) @@ C("parcel") :> Str(parcel)
    @@ C("genotype") :> Str("Nara") @@ C("location") :> Str("Strickhof")
    @@ C("date") :> Str(date) @@ C("lai") :> Num(lai)

Cols2019 == {C("Plot"), C("field"), C("date"), C("lai")}
Cols2022 == {C("point_id"), C("gdd_cumsum"), C("parcel"), C("genotype"),
             C("location"), C("date"), C("lai")}

Lai2019U ==
    << Rec2019(PlotA, "Parzelle35", "2019-05-01", 2),
       Rec2019(PlotA, "Parzelle35", "2019-06-01", 4),
       Rec2019(PlotG, "Grund", "2019-05-01", 0) >>

Ccc2019U ==
    << Rec2019(PlotA, "Parzelle35", "2019-05-01", 5) @@ C("CCC [g/m2]") :> Num(1),
       Rec2019(PlotA, "Parzelle35", "2019-06-01", 7) @@ C("CCC [g/m2]") :> Num(3),
       Rec2019(PlotG, "Grund", "2019-05-01", 1) @@ C("CCC [g/m2]") :> Num(2) >>

Lai2022U ==
    << Rec2022(Point1, 500, "Broatefaeld", "2022-04-01", 3),
       Rec2022(Point1, 800, "Broatefaeld", "2022-05-01", 6) >>

Ccc2022U ==
    << Rec2022(Point1, 500, "Broatefaeld", "2022-04-01", 8) @@ C("ccc") :> Num(2),
       Rec2022(Point1, 800, "Broatefaeld", "2022-05-01", 9) @@ C("ccc") :> Num(3) >>

InvCols ==
    {C("point_id"), <<"lai", "_all">>, <<"lai", " (Phenology)">>,
     <<"ccc", "_all">>, <<"ccc", " (Phenology)">>, C("Macro-Stage")}

InvRec(la, lp, ca, cp, stage) ==
    C("point_id") :> Point1 @@ <<"lai", "_all">> :> Num(la)
    @@ <<"lai", " (Phenology)">> :> Num(lp) @@ <<"ccc", "_all">> :> Num(ca)
    @@ <<"ccc", " (Phenology)">> :> Num(cp) @@ C("Macro-Stage") :> Str(stage)

InvU == << InvRec(2, 4, 1, 3, MacroStages[1]), InvRec(0, 5, 2, 0, MacroStages[2]) >>

InvTable(cols, n) == Frame(cols, [i \in 1..n |-> Restrict(InvU[i], cols)])

Disk(l19, c19, l22, c22, inv1, inv2, missing) ==
    [lai  |-> (2019 :> l19 @@ 2022 :> l22),
     ccc  |-> (2019 :> c19 @@ 2022 :> c22),
     bbch |-> Str("in-situ_bbch.gpkg"),
     inv  |-> (sub_dirs[1] :> inv1 @@ sub_dirs[2] :> inv2),
     missing |-> missing]

InitLoad ==
    /\ pc = "read_lai"
    /\ failedAt = ""
    /\ yi = 1
    /\ lai_list = <<>> /\ ccc_list = <<>>
    /\ lai_all = EmptyFrame /\ ccc_all = EmptyFrame
    /\ bbch_insitu = NaN

InitLoop ==
    /\ si = 1 /\ ti = 1
    /\ inv_res_df = EmptyFrame
    /\ trait_settings = [t \in TraitNames |-> {}]
    /\ insitu_trait_df = EmptyFrame
    /\ joined = EmptyFrame
    /\ processed = <<>>
    /\ fs = <<>> /\ writes = <<>>

InitLocals ==
    /\ df = EmptyFrame
    /\ error_stats = <<>>
    /\ ax = Subplots(0)
    /\ idx = 0 /\ it = 1
    /\ err_stats_list = <<>>
    /\ n_macro_stages = 0
    /\ df_stages = <<>>
    /\ calls = <<>>

NoArgs == [df |-> EmptyFrame, out_dir |-> OutDir(sub_dirs[1], traits[1]), trait |-> traits[1]]

---------------------------------------------------------------------------
(* The loading and joining part of the entry point, on every choice of small
   in-situ tables and inversion results *)
InvTables ==
    {InvTable(cols, n) :
        cols \in {InvCols, InvCols \ {<<"ccc", " (Phenology)">>},
                  InvCols \ {<<"lai", " (Phenology)">>, <<"ccc", " (Phenology)">>}},
        n \in 0..Len(InvU)}

JoinDisks ==
    {Disk(l19, c19, l22, c22, inv, inv, {}) :
        l19 \in SubTables(Cols2019, Lai2019U, MaxRecs),
        c19 \in SubTables(Cols2019 \cup {C("CCC [g/m2]")}, Ccc2019U, MaxRecs),
        l22 \in SubTables(Cols2022, Lai2022U, MaxRecs),
        c22 \in SubTables(Cols2022 \cup {C("ccc")}, Ccc2022U, MaxRecs),
        inv \in InvTables}

InitJoin ==
    /\ disk \in JoinDisks
    /\ InitLoad /\ InitLoop /\ InitLocals
    /\ args = NoArgs

NextJoin ==
    \/ ReadLai \/ ReadCcc \/ ConcatYears \/ ReadBbch \/ ReadInvRes
    \/ MergeInsitu \/ FixMergedCols \/ RefCab \/ PredCab

SpecJoin == InitJoin /\ [][NextJoin]_vars
---------------------------------------------------------------------------
(* validate_data alone, on every joined table of at most MaxRows rows *)
JoinedRowTypes ==
    {JRow("cab", ref, Num(30), pheno, bbch, stage) :
        ref \in {NaN, Num(40)}, pheno \in {NaN, Num(50)},
        bbch \in {Num(25), Num(35)},
        stage \in {NaN} \cup {Str(MacroStages[i]) : i \in 1..Len(MacroStages)}}

JoinedColSets == {JoinedCols("cab")} \cup {JoinedCols("cab") \ {c} : c \in JoinedCols("cab")}

InitValidate ==
    /\ pc = "v_start"
    /\ failedAt = ""
    /\ disk = Disk(EmptyFrame, EmptyFrame, EmptyFrame, EmptyFrame,
                   EmptyFrame, EmptyFrame, {})
    /\ yi = 1
    /\ lai_list = <<>> /\ ccc_list = <<>>
    /\ lai_all = EmptyFrame /\ ccc_all = EmptyFrame
    /\ bbch_insitu = NaN
    /\ InitLoop /\ InitLocals
    /\ \E cols \in JoinedColSets, n \in 0..MaxRows :
          \E rows \in [1..n -> {Restrict(r, cols) : r \in JoinedRowTypes}] :
             args = [df |-> Frame(cols, rows), out_dir |-> OutDir(sub_dirs[1], traits[1]),
                     trait |-> traits[1]]

NextValidate ==
    \/ ValidateStart \/ PlotAll \/ PlotPheno \/ GroupStages
    \/ LoopPheno \/ EndLoopPheno \/ LoopAll \/ EndLoopAll

SpecValidate == InitValidate /\ [][NextValidate]_vars

---------------------------------------------------------------------------
(* The whole entry point *)
GoodLai2019 == Frame(Cols2019, <<Lai2019U[1], Lai2019U[3]>>)
GoodCcc2019 == Frame(Cols2019 \cup {C("CCC [g/m2]")}, <<Ccc2019U[1], Ccc2019U[3]>>)
GoodLai2022 == Frame(Cols2022, <<Lai2022U[1]>>)
GoodCcc2022 == Frame(Cols2022 \cup {C("ccc")}, <<Ccc2022U[1]>>)
GoodInv == InvTable(InvCols, Len(InvU))

InputFiles ==
    {<<"lai", 2019>>, <<"ccc", 2019>>, <<"lai", 2022>>, <<"ccc", 2022>>,
     <<"bbch", 2022>>, <<"inv", sub_dirs[1]>>, <<"inv", sub_dirs[2]>>}

WithoutCol(d, c) == Frame(d.cols \ {c}, [i \in 1..Len(d.rows) |-> Restrict(d.rows[i], d.cols \ {c})])

Disks ==
    \* every file present and well-formed, or one file missing
    {Disk(GoodLai2019, GoodCcc2019, GoodLai2022, GoodCcc2022, GoodInv, GoodInv, m) :
        m \in {{}} \cup {{f} : f \in InputFiles}}
    \cup
    \* schema mismatches: a column the code expects is absent, or doubled
    { Disk(WithoutCol(GoodLai2019, C("field")), GoodCcc2019, GoodLai2022, GoodCcc2022,
           GoodInv, GoodInv, {}),
      Disk(GoodLai2019, WithoutCol(GoodCcc2019, C("CCC [g/m2]")), GoodLai2022, GoodCcc2022,
           GoodInv, GoodInv, {}),
      Disk(GoodLai2019, WithoutCol(GoodCcc2019, C("lai")), GoodLai2022,
           WithoutCol(GoodCcc2022, C("lai")), GoodInv, GoodInv, {}),
      Disk(GoodLai2019, GoodCcc2019, Frame(Cols2022 \cup {C("ccc")}, <<Ccc2022U[1]>>),
           GoodCcc2022, GoodInv, GoodInv, {}),
      Disk(GoodLai2019, GoodCcc2019, GoodLai2022, GoodCcc2022,
           GoodInv, WithoutCol(GoodInv, <<"ccc", "_all">>), {}),
    \* no in-situ record at all
      Disk(Frame(Cols2019, <<>>), GoodCcc2019, Frame(Cols2022, <<>>), GoodCcc2022,
           GoodInv, GoodInv, {}) }

Init ==
    /\ disk \in Disks
    /\ InitLoad /\ InitLoop /\ InitLocals
    /\ args = NoArgs

Next ==
    \/ ReadLai \/ ReadCcc \/ ConcatYears \/ ReadBbch \/ ReadInvRes
    \/ MergeInsitu \/ FixMergedCols \/ RefCab \/ PredCab \/ DelOrigTraitData
    \/ JoinWithInsitu \/ CallValidate
    \/ ValidateStart \/ PlotAll \/ PlotPheno \/ GroupStages
    \/ LoopPheno \/ EndLoopPheno \/ LoopAll \/ EndLoopAll
    \/ Return

Spec == Init /\ [][Next]_vars

---------------------------------------------------------------------------
(* Properties of validate_data (SpecValidate) *)

\* the rows of _df with a reference value, as positions, and what a column
\* of them looks like as a series
RefPos == SelectSeq([i \in 1..Len(args.df.rows) |-> i],
                    LAMBDA i : args.df.rows[i][<<"cab">>] # NaN)
RefSeries(col) == [j \in 1..Len(RefPos) |-> <<RefPos[j] - 1, args.df.rows[RefPos[j]][col]>>]

\* the pairs of two series of the same rows with both values present
ValidPairs(true, pred) ==
    SelectSeq([i \in 1..Len(true) |-> <<true[i][1], true[i][2], pred[i][2]>>],
              LAMBDA t : t[2] # <<>> /\ t[3] # <<>>)

\* the macro-stage values among the rows with a reference value, sorted
RefStages ==
    SelectSeq(MacroStages,
              LAMBDA s : \E j \in 1..Len(RefPos) :
                            /\ <<"Macro-Stage">> \in args.df.cols
                            /\ args.df.rows[RefPos[j]][<<"Macro-Stage">>] = <<s>>)

OutFile(name) == <<args.out_dir, <<"cab", name>> >>
ValidateOutputs ==
    {OutFile("_scatterplot.png"), OutFile("_error_stats.csv"),
     OutFile("_scatterplot_pheno_phases.png"), OutFile("_errors_pheno_phases.csv"),
     OutFile("_scatterplot_pheno_phases_all.png"), OutFile("_errors_pheno_phases_all.csv"),
     <<args.out_dir, <<"bbch_confusion_matrix">> >>}

WellFormed == args.df.cols = JoinedCols("cab")

\* C1: for every joined table with at least one row with a reference value and
\* k >= 1 distinct macro-stage values among those rows (k = 1 included),
\* validate_data does not stop with an exception, and when it has returned
\* all seven outputs are written.
C1_RunsToCompletion ==
    (WellFormed /\ Len(RefPos) >= 1 /\ Len(RefStages) >= 1)
        => /\ pc # "failed"
           /\ pc = "v_return" => ValidateOutputs \subseteq DOMAIN fs

\* C2: the full-sample error-stats table has exactly two rows, the first of the
\* '<trait>_all' column tagged phenology_considered = False, the second of the
\* '<trait> (Phenology)' column tagged True, both against the rows with a
\* reference value.
C2_FullSampleTable ==
    OutFile("_error_stats.csv") \in DOMAIN fs =>
        LET t == fs[OutFile("_error_stats.csv")]
        IN  /\ Len(t) = 2
            /\ t[1].phenology_considered = FALSE
            /\ t[2].phenology_considered = TRUE
            /\ Len(calls) >= 2
            /\ calls[1] = [true |-> RefSeries(<<"cab">>), pred |-> RefSeries(<<"cab", "_all">>)]
            /\ calls[2] = [true |-> RefSeries(<<"cab">>),
                           pred |-> RefSeries(<<"cab", " (Phenology)">>)]
            /\ t[1].pairs = ValidPairs(RefSeries(<<"cab">>), RefSeries(<<"cab", "_all">>))
            /\ t[2].pairs = ValidPairs(RefSeries(<<"cab">>), RefSeries(<<"cab", " (Phenology)">>))

\* the table is written, a row without reference value was left out, and the
\* two rows differ
C2_Witness ==
    /\ OutFile("_error_stats.csv") \in DOMAIN fs
    /\ Len(RefPos) = 1 /\ Len(args.df.rows) = 2
    /\ fs[OutFile("_error_stats.csv")][1].n = 1
    /\ fs[OutFile("_error_stats.csv")][2].n = 0

\* C3: each per-macro-stage error-stats table has exactly one row per macro-stage
\* value among the rows with a reference value, tagged with it in 'phase', both
\* tables in the same (sorted) order; the i-th stage is drawn on the i-th panel,
\* and the panel index of an iteration is below the number of panels.
StageTableOk(csv, png) ==
    csv \in DOMAIN fs =>
        /\ png \in DOMAIN fs
        /\ Len(fs[csv]) = Len(RefStages)
        /\ Len(fs[png]) = Len(RefStages)
        /\ \A i \in 1..Len(RefStages) :
              /\ fs[csv][i].phase = RefStages[i]
              /\ fs[png][i].title = <<"Macro-Stage: ", RefStages[i]>>
              /\ fs[png][i].drawn = fs[csv][i].pairs

C3_StageTables ==
    /\ StageTableOk(OutFile("_errors_pheno_phases.csv"), OutFile("_scatterplot_pheno_phases.png"))
    /\ StageTableOk(OutFile("_errors_pheno_phases_all.csv"),
                    OutFile("_scatterplot_pheno_phases_all.png"))
    /\ (pc \in {"v_loop_pheno", "v_loop_all"} /\ it <= Len(df_stages))
          => (idx = it - 1 /\ idx < Len(ax.panels) /\ Len(ax.panels) = n_macro_stages)

\* both tables are written, with two stages
C3_Witness ==
    /\ pc = "v_return"
    /\ Len(fs[OutFile("_errors_pheno_phases.csv")]) = 2
    /\ Len(fs[OutFile("_errors_pheno_phases_all.csv")]) = 2
    /\ fs[OutFile("_errors_pheno_phases.csv")][1].n = 0

\* C4 as stated: every pair handed to plot_prediction has a reference value and
\* a predicted value, and the two series of a call are of the same rows.
SameRows(call) ==
    /\ Len(call.true) = Len(call.pred)
    /\ \A i \in 1..Len(call.true) : call.true[i][1] = call.pred[i][1]

C4_Original ==
    \A c \in 1..Len(calls) :
        /\ SameRows(calls[c])
        /\ \A i \in 1..Len(calls[c].true) :
              calls[c].true[i][2] # NaN /\ calls[c].pred[i][2] # NaN

\* C4, amended: every pair handed to plot_prediction has a reference value (the
\* predicted value may be missing); the two series of a call are of the same
\* rows of _df, in the same order, and hold those rows' cells.
C4_Amended ==
    \A c \in 1..Len(calls) :
        /\ SameRows(calls[c])
        /\ \A i \in 1..Len(calls[c].true) :
              LET row == args.df.rows[calls[c].true[i][1] + 1]
              IN  /\ calls[c].true[i][2] # NaN
                  /\ calls[c].true[i][2] = row[<<"cab">>]
                  /\ \E col \in args.df.cols \cap {<<"cab", "_all">>, <<"cab", " (Phenology)">>} :
                        calls[c].pred[i][2] = row[col]

\* a per-macro-stage call hands over a pair without predicted value
C4_Witness ==
    /\ Len(calls) >= 3
    /\ \E i \in 1..Len(calls[3].pred) : calls[3].pred[i][2] = NaN

\* every row of a group has the group's key in column col
GroupedBy(col) ==
    \A j \in 1..Len(df_stages) :
        \A i \in 1..Len(df_stages[j][2].rows) :
            /\ col \in df_stages[j][2].cols
            /\ df_stages[j][2].rows[i][col] = <<df_stages[j][1]>>

Lookup(bbch) ==
    IF bbch[1] < 30 * bbch[2] THEN <<MacroStages[1]>>
    ELSE IF bbch[1] < 60 * bbch[2] THEN <<MacroStages[2]>> ELSE <<MacroStages[3]>>

\* C8: the groups of the per-macro-stage stratification are those of the
\* macro-stage assign_macro_stages gives for the row's 'BBCH Rating': every row
\* of a group has the group's key as its BBCH-derived macro-stage.
C8_GroupsByBbchStage ==
    /\ GroupedBy(<<"BBCH Rating (Macro-Stages)">>)
    /\ \A j \in 1..Len(df_stages) :
          \A i \in 1..Len(df_stages[j][2].rows) :
              Lookup(df_stages[j][2].rows[i][<<"BBCH Rating">>]) = <<df_stages[j][1]>>

---------------------------------------------------------------------------
(* Properties of the loading and joining part (SpecJoin) *)

AfterConcat == {"read_bbch", "read_inv", "merge", "fix_cols", "ref_cab", "pred_cab", "del_orig"}

\* cab = ccc / lai * 100, by cross-multiplication; x/0 is inf and 0/0 is NaN
CabIs(cab, ccc, lai) ==
    IF ccc = <<>> \/ lai = <<>> THEN cab = <<>>
    ELSE IF lai[1] = 0 THEN cab = (IF ccc[1] = 0 THEN <<>> ELSE <<1, 0>>)
    ELSE /\ cab # <<>>
         /\ cab[2] > 0
         /\ cab[1] * lai[1] * ccc[2] = 100 * ccc[1] * lai[2] * cab[2]

SameKeys(a, b) ==
    \A k \in {<<"point_id">>, <<"gdd_cumsum">>, <<"parcel">>, <<"location">>} : a[k] = b[k]

\* C5: the reference cab is computed after the merge as ccc / lai * 100, of the
\* ccc of a CCC record and the lai of a LAI record of the same keys; every
\* column of the inversion results starting with 'lai' gets a column named with
\* 'cab' for 'lai' holding the like-named ccc column / that lai column * 100,
\* so no configuration present is left without a cab column.
C5_SameFormula ==
    /\ pc \in {"fix_cols", "ref_cab"} => <<"cab">> \notin insitu_trait_df.cols
    /\ pc \in {"pred_cab", "del_orig"} =>
          /\ <<"cab">> \in insitu_trait_df.cols
          /\ \A i \in 1..Len(insitu_trait_df.rows) :
                LET r == insitu_trait_df.rows[i]
                IN  /\ CabIs(r[<<"cab">>], r[<<"ccc">>], r[<<"lai">>])
                    /\ \E k \in 1..Len(lai_all.rows) :
                          /\ SameKeys(lai_all.rows[k], r)
                          /\ lai_all.rows[k][<<"lai">>] = r[<<"lai">>]
                          /\ lai_all.rows[k][<<"date">>] = r[<<"date">>]
                    /\ \E k \in 1..Len(ccc_all.rows) :
                          /\ SameKeys(ccc_all.rows[k], r)
                          /\ ccc_all.rows[k][<<"ccc">>] = r[<<"ccc">>]
    /\ pc = "del_orig" =>
          LET orig == disk.inv[sub_dirs[si]]
          IN  /\ Len(inv_res_df.rows) = Len(orig.rows)
              /\ \A c \in orig.cols :
                    /\ \A i \in 1..Len(orig.rows) : inv_res_df.rows[i][c] = orig.rows[i][c]
                    /\ c[1] = "lai" =>
                          /\ <<"cab">> \o Tail(c) \in inv_res_df.cols
                          /\ \A i \in 1..Len(orig.rows) :
                                CabIs(inv_res_df.rows[i][<<"cab">> \o Tail(c)],
                                      orig.rows[i][<<"ccc">> \o Tail(c)],
                                      orig.rows[i][c])

\* reference and predicted cab are there, for both configurations, one of them
\* not a whole number and one a division by zero
C5_Witness ==
    /\ pc = "del_orig"
    /\ \E i \in 1..Len(insitu_trait_df.rows) : insitu_trait_df.rows[i][<<"cab">>] = <<200, 3>>
    /\ Len(inv_res_df.rows) = 2
    /\ inv_res_df.rows[1][<<"cab", "_all">>] = <<50, 1>>
    /\ inv_res_df.rows[1][<<"cab", " (Phenology)">>] = <<75, 1>>
    /\ inv_res_df.rows[2][<<"cab", "_all">>] = <<1, 0>>

\* C9: the merged reference table of the cab branch has one row per observation:
\* a LAI record is paired only with a CCC record of the same date, and the table
\* has at most min(number of LAI records, number of CCC records) rows.
C9_OneRowPerObservation ==
    pc = "fix_cols" =>
        /\ Len(insitu_trait_df.rows) <= Min(Len(lai_all.rows), Len(ccc_all.rows))
        /\ \A i \in 1..Len(insitu_trait_df.rows) :
              insitu_trait_df.rows[i][<<"date", "_x">>] = insitu_trait_df.rows[i][<<"date", "_y">>]

\* the part of a plot name before its second '_'
FirstTwoParts(plot) ==
    SubSeq(plot, 1, Cardinality({i \in 1..Len(plot) :
                                    Cardinality({j \in 1..i : plot[j] = "_"}) < 2}))

Reconciled(all, f19, f22) ==
    /\ Len(all.rows) = Len(f19.rows) + Len(f22.rows)
    /\ \A i \in 1..Len(f19.rows) :
          LET r == all.rows[i]
              o == f19.rows[i]
          IN  /\ r[<<"gdd_cumsum">>] = <<999, 1>>
              /\ r[<<"point_id">>] = FirstTwoParts(o[<<"Plot">>])
              /\ r[<<"parcel">>] = o[<<"field">>]
              /\ r[<<"genotype">>] = <<"Arnold">>
              /\ r[<<"location">>] = <<"SwissFutureFarm">>
              /\ \A c \in f19.cols : r[c] = o[c]
    /\ \A i \in 1..Len(f22.rows) :
          \A c \in f22.cols : all.rows[Len(f19.rows) + i][c] = f22.rows[i][c]
    /\ \A i \in 1..Len(all.rows) :
          \A k \in {<<"point_id">>, <<"gdd_cumsum">>, <<"parcel">>, <<"location">>} :
              k \in all.cols /\ all.rows[i][k] # <<>>

\* C10: the 2019 schema is reconciled before any merge: in the concatenated
\* tables every 2019 record has gdd_cumsum = 999, point_id = the first two
\* '_'-separated parts of Plot, parcel = field, genotype and location set, a
\* 2019 CCC record has ccc = 'CCC [g/m2]', the records of 2022 are unchanged,
\* and every record carries the four merge keys.
C10_SchemaReconciled ==
    /\ pc \in {"read_lai", "read_ccc", "concat", "read_bbch", "read_inv", "merge"}
          => insitu_trait_df = EmptyFrame
    /\ pc \in AfterConcat =>
          /\ Reconciled(lai_all, disk.lai[2019], disk.lai[2022])
          /\ Reconciled(ccc_all, disk.ccc[2019], disk.ccc[2022])
          /\ \A i \in 1..Len(disk.ccc[2019].rows) :
                ccc_all.rows[i][<<"ccc">>] = disk.ccc[2019].rows[i][<<"CCC [g/m2]">>]

\* tables of both years are about to be merged, a 2019 plot name has three parts
C10_Witness ==
    /\ pc = "merge"
    /\ Len(disk.lai[2019].rows) = 2 /\ Len(disk.lai[2022].rows) >= 1
    /\ Len(disk.ccc[2019].rows) >= 1 /\ Len(disk.ccc[2022].rows) >= 1
    /\ disk.lai[2019].rows[1][<<"Plot">>] = <<"F", "_", "1", "_", "a">>
    /\ lai_all.rows[1][<<"point_id">>] = <<"F", "_", "1">>
    /\ lai_all.rows[2][<<"point_id">>] = <<"G">>

---------------------------------------------------------------------------
(* Properties of the whole entry point (Spec) *)

AllPairs ==
    [k \in 1..(Len(sub_dirs) * Len(traits)) |->
        <<sub_dirs[((k - 1) \div Len(traits)) + 1], traits[((k - 1) % Len(traits)) + 1]>>]

IsPrefix(a, b) == Len(a) <= Len(b) /\ \A i \in 1..Len(a) : a[i] = b[i]

ValidatePcs == {"v_start", "v_all", "v_pheno", "v_stages", "v_loop_pheno", "v_loop_all",
                "v_return"}

DirOf(pair) == <<pair[1], "validation_" \o pair[2]>>
JoinedCsv(pair) == <<DirOf(pair), <<"inv_res_joined_with_insitu_" \o pair[2] \o ".csv">> >>

C6_State ==
    /\ IsPrefix(processed, AllPairs)
    /\ pc = "done" => processed = AllPairs
    /\ pc \in ValidatePcs =>
          /\ processed # <<>>
          /\ processed[Len(processed)] = <<sub_dirs[si], traits[ti]>>
          /\ JoinedCsv(processed[Len(processed)]) \in DOMAIN fs
          /\ fs[JoinedCsv(processed[Len(processed)])] = args.df
    /\ \A i, j \in 1..Len(writes) : i # j => writes[i] # writes[j]
    /\ Cardinality({writes[i][1] : i \in 1..Len(writes)})
          = Len(processed) + (IF pc = "call" THEN 1 ELSE 0)

C6_Step ==
    /\ \A i \in (Len(writes) + 1)..Len(writes') : writes'[i][1] = DirOf(<<sub_dirs[si], traits[ti]>>)
    /\ disk' = disk
    /\ pc \notin {"read_lai", "read_ccc", "concat"} => lai_all' = lai_all /\ ccc_all' = ccc_all
    /\ pc \notin {"read_lai", "read_ccc", "concat", "read_bbch"} => bbch_insitu' = bbch_insitu

\* C6: every (configuration, trait) pair is processed exactly once, in the listed
\* order; the joined CSV of a pair is written before validate_data starts on it;
\* the outputs of different pairs go to different directories and no file is
\* written twice; once loaded, the in-situ data are never changed.
C6_EveryPairOnce == [] C6_State /\ [][C6_Step]_vars

\* the run is over and both configurations were validated
C6_Witness == pc = "done" /\ Len(processed) = 2 /\ Len(writes) = 16

C7_State ==
    /\ pc = "failed" <=> failedAt # ""
    /\ \A k \in 1..Len(processed) :
          (k < Len(processed) \/ pc \in {"v_return", "done"})
              => Len(fs[JoinedCsv(processed[k])].rows) > 0

C7_Step ==
    /\ failedAt = ""
    /\ IsPrefix(writes, writes')
    /\ \A f \in DOMAIN fs : f \in DOMAIN fs' /\ fs'[f] = fs[f]

\* C7: a failure in any step ends the run at that step: no step follows it, so
\* nothing is retried and no later pair is processed; a pair whose joined table
\* has no rows never completes; files once written stay as written.
C7_FailureTerminates == [] C7_State /\ [][C7_Step]_vars

\* the second configuration fails on a joined table without rows, after its
\* joined CSV and the full-sample outputs were written, the first one's files
\* all there
C7_Witness ==
    /\ pc = "failed" /\ failedAt = "v_stages"
    /\ Len(processed) = 2
    /\ Len(args.df.rows) = 0
    /\ Len(writes) = 11

====
